---------------------------- MODULE Spec2Model ----------------------------
(***************************************************************************)
(* A model of the thermal marching engine (src/src/model.rs, src/src/zone.rs): *)
(* ThermalModel::new, ThermalModel::march and the zone heat balance.       *)
(*                                                                         *)
(* Numbers.  An f64 is a record [k, v]: k = "num" carries the value        *)
(* v / Scale (fixed point, results truncated to the unit as IEEE-754       *)
(* rounds to the ulp), k = "inf" carries the sign in v, k = "nan" is NaN.  *)
(* Time (dt, dates) is kept as an exact fraction [num, den] of seconds.    *)
(***************************************************************************)
EXTENDS Integers, Sequences, FiniteSets, TLC

(***************************************************************************)
(* Bounds of the model                                                     *)
(***************************************************************************)
Scale == 100            \* fixed-point resolution: 1 / Scale
MaxZones == 2           \* spaces of the building
MaxSurfaces == 1        \* opaque surfaces of the building
MaxFenestrations == 1   \* fenestrations of the building
MaxConstructions == 2   \* constructions of the building
MaxDivisor == 2         \* largest divisor discretize_construction returns
MaxStepsPerHour == 2    \* n, the main simulation's steps per hour
MaxMarches == 1         \* calls of march

(***************************************************************************)
(* f64 arithmetic                                                          *)
(***************************************************************************)
Num(v) == [k |-> "num", v |-> v]
NaN == [k |-> "nan", v |-> 0]
Inf(s) == [k |-> "inf", v |-> s]
Floats == [k : {"num", "inf", "nan"}, v : Int]

IsFinite(x) == x.k = "num"
IsNaN(x) == x.k = "nan"

Abs(i) == IF i < 0 THEN -i ELSE i
Sign(i) == IF i < 0 THEN -1 ELSE 1
\* integer quotient truncated toward zero
TDiv(p, q) == Sign(p) * Sign(q) * (Abs(p) \div Abs(q))
\* (p * q) \div d for naturals, without the wide product
MulDiv(p, q, d) ==
    IF q >= d
    THEN p * (q \div d) + (p * (q % d)) \div d
    ELSE q * (p \div d) + (q * (p % d)) \div d
\* the quotient of p * q by d, truncated toward zero
TMulDiv(p, q, d) == Sign(p) * Sign(q) * Sign(d) * MulDiv(Abs(p), Abs(q), Abs(d))

FNeg(x) ==
    CASE x.k = "nan" -> NaN
      [] x.k = "inf" -> Inf(-x.v)
      [] OTHER -> Num(-x.v)

FAdd(x, y) ==
    CASE x.k = "nan" \/ y.k = "nan" -> NaN
      [] x.k = "inf" /\ y.k = "inf" -> IF x.v = y.v THEN x ELSE NaN
      [] x.k = "inf" -> x
      [] y.k = "inf" -> y
      [] OTHER -> Num(x.v + y.v)

FSub(x, y) == FAdd(x, FNeg(y))

FMul(x, y) ==
    CASE x.k = "nan" \/ y.k = "nan" -> NaN
      [] x.k = "inf" /\ y.k = "inf" -> Inf(x.v * y.v)
      [] x.k = "inf" -> IF y.v = 0 THEN NaN ELSE Inf(x.v * Sign(y.v))
      [] y.k = "inf" -> IF x.v = 0 THEN NaN ELSE Inf(y.v * Sign(x.v))
      [] OTHER -> Num(TMulDiv(x.v, y.v, Scale))

FDiv(x, y) ==
    CASE x.k = "nan" \/ y.k = "nan" -> NaN
      [] x.k = "inf" /\ y.k = "inf" -> NaN
      [] x.k = "inf" -> Inf(x.v * Sign(y.v))
      [] y.k = "inf" -> Num(0)
      [] y.v = 0 -> IF x.v = 0 THEN NaN ELSE Inf(Sign(x.v))
      [] OTHER -> Num(TMulDiv(x.v, Scale, y.v))

\* e^(-u / Scale) * Scale for an integer u >= 0: halve the argument down to
\* at most 1/2, a third-order Taylor polynomial there, square back up
RECURSIVE ExpNeg(_)
ExpNeg(u) ==
    IF 2 * u > Scale
    THEN LET h == ExpNeg(u \div 2) IN (h * h) \div Scale
    ELSE Scale - u + ((u * u) \div (2 * Scale)) - ((u * u * u) \div (6 * Scale * Scale))

\* f64::exp
FExp(x) ==
    CASE x.k = "nan" -> NaN
      [] x.k = "inf" -> IF x.v > 0 THEN x ELSE Num(0)
      [] x.v <= 0 -> Num(ExpNeg(-x.v))
      [] OTHER -> LET e == ExpNeg(x.v)
                  IN IF e = 0 THEN Inf(1) ELSE Num((Scale * Scale) \div e)

(***************************************************************************)
(* Exact fractions of seconds                                              *)
(***************************************************************************)
RECURSIVE Gcd(_, _)
Gcd(p, q) == IF q = 0 THEN p ELSE Gcd(q, p % q)

Rat(p, q) == LET g == Gcd(p, q) IN [num |-> p \div g, den |-> q \div g]
RatAdd(r, s) == Rat(r.num * s.den + s.num * r.den, r.den * s.den)
RatMulInt(r, m) == Rat(r.num * m, r.den)
RatLeq(r, s) == r.num * s.den <= s.num * r.den
\* a fraction of seconds as an f64
RatToFloat(r) == Num((r.num * Scale) \div r.den)


(***************************************************************************)
(* The building (building_model::Building) and the simulation state        *)
(***************************************************************************)
\* Boundary of a face: Option<Boundary>; None is the outdoors
NoBoundary == [kind |-> "None", z |-> 0]
Ground == [kind |-> "Ground", z |-> 0]
Space(z) == [kind |-> "Space", z |-> z]
Boundaries(nz) == {NoBoundary, Ground} \cup {Space(z) : z \in 1..nz}

SecondsPerHour == 3600
InitialTemperature == 22

\* a SimulationStateElement: kind(idx, val)
Element(kind, idx, val) == [kind |-> kind, idx |-> idx, val |-> val]

\* every sequence over S of length lo..hi
SeqsOf(S, lo, hi) == UNION {[1..m -> S] : m \in lo..hi}

VARIABLES
    building,   \* the Building handed to new and march
    n,          \* steps per hour of the main simulation
    state,      \* the SimulationState: a sequence of elements
    model,      \* the ThermalModel: zones, surfaces, fenestrations, dt_subdivisions, dt
    pc,         \* position of the running call (new or march)
    new,        \* locals of new: k (constructions scanned), n_subdivisions
    march,      \* locals of march: start, date, k, i, t_out, t_current, a, b, c, future
    result,     \* what the last call of march returned
    marches,    \* calls of march made so far
    trace,      \* what the last call of march did so far, in order
    got,        \* what the last call of a getter returned
    weather     \* the Weather handed to march: the answers it can give

vars == <<building, n, state, model, pc, new, march, result, marches, trace, got,
          weather>>

(***************************************************************************)
(* ThermalZone (src/src/zone.rs)                                           *)
(***************************************************************************)
\* air::density() and air::specific_heat() of the gas_properties crate
AirDensity == Num((12 * Scale) \div 10)
AirSpecificHeat == Num(1000 * Scale)

\* Space::get_heating_cooling_state_index and get_luminaires_state_index:
\* the slot of the space's heating/cooling and of its lighting in the state,
\* 0 (None) for a space that has none
GetHeatingCoolingStateIndex(space) ==
    IF "heating_cooling_state_index" \in DOMAIN space
    THEN space.heating_cooling_state_index ELSE 0
GetLuminairesStateIndex(space) ==
    IF "luminaire_state_index" \in DOMAIN space
    THEN space.luminaire_state_index ELSE 0

\* ZoneFromSpace when the zone takes the slot before the one it pushed
ZoneFromSpacePreviousSlot(space, idx, len) ==
    [index |-> idx,
     volume |-> space.volume,
     temperature_state_index |-> len,
     heating_cooling_state_index |-> GetHeatingCoolingStateIndex(space),
     luminaire_state_index |-> GetLuminairesStateIndex(space)]

\* ThermalZone::from_space: the zone built for space number idx when the
\* state already holds len elements
ZoneFromSpace(space, idx, len) ==
    [index |-> idx,
     volume |-> space.volume,
     temperature_state_index |-> len + 1,
     heating_cooling_state_index |-> GetHeatingCoolingStateIndex(space),
     luminaire_state_index |-> GetLuminairesStateIndex(space)]

\* the element from_space pushes
ZoneStateElement(idx) ==
    Element("SpaceDryBulbTemperature", idx, Num(InitialTemperature * Scale))

\* ThermalZone::mcp
Mcp(zone) == FMul(FMul(zone.volume, AirDensity), AirSpecificHeat)

\* ThermalZone::temperature: the value, or a panic
ZoneTemperature(zone, st) ==
    LET e == st[zone.temperature_state_index]
    IN IF e.kind = "SpaceDryBulbTemperature" /\ e.idx = zone.index
       THEN [ok |-> TRUE, v |-> e.val]
       ELSE [ok |-> FALSE, v |-> NaN]

\* ThermalZone::set_temperature: writes the zone's slot
SetTemperature(zone, v, st) ==
    [st EXCEPT ![zone.temperature_state_index] =
        Element("SpaceDryBulbTemperature", zone.index, v)]

(***************************************************************************)
(* ThermalSurface (crate::surface)                                         *)
(***************************************************************************)
\* ThermalSurface::new_surface / new_fenestration: the surface built with
\* substep dt when the state already holds len elements. Its two face nodes
\* take the next two slots; it has no boundary yet.
NewThermalSurface(surface, dt, n_elements, len) ==
    [front_boundary |-> NoBoundary,
     back_boundary |-> NoBoundary,
     dt |-> dt,
     n_elements |-> n_elements,
     area |-> surface.area,
     rs_front |-> surface.rs_front,
     rs_back |-> surface.rs_back,
     r_value |-> surface.r_value,
     front_node |-> len + 1,
     back_node |-> len + 2]

\* the node elements new_surface pushes for surface number idx
SurfaceStateElements(idx) ==
    << Element("SurfaceNodeTemperature", idx, Num(InitialTemperature * Scale)),
       Element("SurfaceNodeTemperature", idx, Num(InitialTemperature * Scale)) >>

\* ThermalSurface::march for a massless wall: the face temperatures of the
\* steady heat flow between the two air temperatures
SurfaceMarch(s, st, t_front, t_back) ==
    LET r == FAdd(FAdd(s.rs_front, s.r_value), s.rs_back)
        q == FDiv(FSub(t_front, t_back), r)
        node0 == FSub(t_front, FMul(q, s.rs_front))
        nodeN == FAdd(t_back, FMul(q, s.rs_back))
    IN [st EXCEPT ![s.front_node].val = node0, ![s.back_node].val = nodeN]

\* ThermalSurface::front_temperature / back_temperature
FrontTemperature(s, st) == st[s.front_node].val
BackTemperature(s, st) == st[s.back_node].val

(***************************************************************************)
(* crate::construction::discretize_construction: (n_subdivisions, n_elements) *)
(***************************************************************************)
DiscretizeConstruction(construction) ==
    <<construction.tstep_subdivision, construction.n_elements>>

(***************************************************************************)
(* ThermalModel::new (src/src/model.rs)                                    *)
(***************************************************************************)
\* Option<T>::None of an f64
None == [k |-> "none", v |-> 0]

\* the model before new has built anything
EmptyModel ==
    [zones |-> <<>>, surfaces |-> <<>>, fenestrations |-> <<>>,
     dt_subdivisions |-> 0, dt |-> Rat(0, 1)]

\* locals of march when no call is running
NoMarch ==
    [start |-> Rat(0, 1), date |-> Rat(0, 1), k |-> 0, i |-> 0,
     current_weather |-> [dry_bulb_temperature |-> None, wind_speed |-> None,
                          wind_direction |-> None],
     t_out |-> None, t_current |-> <<>>,
     a |-> <<>>, b |-> <<>>, c |-> <<>>, future_temperatures |-> <<>>]

\* lines 75-80: one zone per space, in the order of the spaces, each
\* pushing its temperature element to the state
NewZones ==
    /\ pc = "new"
    /\ model' = [model EXCEPT !.zones =
            [i \in 1..Len(building.spaces) |->
                ZoneFromSpace(building.spaces[i], i, Len(state) + i - 1)]]
    /\ state' = state \o [i \in 1..Len(building.spaces) |-> ZoneStateElement(i)]
    /\ pc' = "new_scan"
    /\ UNCHANGED <<building, n, weather, got, new, march, result, marches, trace>>

\* ScanSubdivisions without the comparison of line 97
ScanSubdivisionsFound(n_subdivisions, construction) ==
    DiscretizeConstruction(construction)[1] * n_subdivisions

\* ScanSubdivisions with the comparison of line 97 turned round
ScanSubdivisionsSmaller(n_subdivisions, construction) ==
    LET found_n_subdivisions == DiscretizeConstruction(construction)[1] * n_subdivisions
    IN IF found_n_subdivisions < n_subdivisions
       THEN found_n_subdivisions
       ELSE n_subdivisions

\* lines 94-99: the divisor kept after the scan of one more construction
ScanSubdivisions(n_subdivisions, construction) ==
    LET found_n_subdivisions == DiscretizeConstruction(construction)[1] * n_subdivisions
    IN IF found_n_subdivisions > n_subdivisions
       THEN found_n_subdivisions
       ELSE n_subdivisions

\* lines 93-101: one turn of the loop over the constructions
NewScan ==
    /\ pc = "new_scan"
    /\ new.k < Len(building.constructions)
    /\ LET construction == building.constructions[new.k + 1]
       IN new' = [k |-> new.k + 1,
                  n_subdivisions |-> ScanSubdivisions(new.n_subdivisions, construction),
                  all_n_elements |->
                      Append(new.all_n_elements, DiscretizeConstruction(construction)[2])]
    /\ UNCHANGED <<building, n, weather, got, state, model, pc, march, result, marches, trace>>

\* ModelDt without the subdivisions: the main timestep
ModelDtMain(steps, n_subdivisions) == Rat(SecondsPerHour, steps)

\* line 104: the model's dt, in seconds
ModelDt(steps, n_subdivisions) == Rat(SecondsPerHour, steps * n_subdivisions)

\* lines 139-144 and 168-173: the boundaries of the building's surface are
\* copied when the surface has them
SetBoundaries(thermal_surface, surface) ==
    [thermal_surface EXCEPT
        !.front_boundary = IF surface.front # NoBoundary THEN surface.front ELSE @,
        !.back_boundary = IF surface.back # NoBoundary THEN surface.back ELSE @]

\* the dt handed to new_surface and new_fenestration (lines 128, 157)
SurfaceDt(dt, construction) == dt

\* lines 121-146 and 150-174: the thermal surfaces of a list of surfaces,
\* the first one taking its state slots after len elements
ThermalSurfaces(list, dt, all_n_elements, len) ==
    [j \in 1..Len(list) |->
        SetBoundaries(
            NewThermalSurface(list[j],
                              SurfaceDt(dt, building.constructions[list[j].construction]),
                              all_n_elements[list[j].construction],
                              len + 2 * (j - 1)),
            list[j])]

RECURSIVE SurfacesStateElements(_, _)
SurfacesStateElements(j, m) ==
    IF j > m THEN <<>> ELSE SurfaceStateElements(j) \o SurfacesStateElements(j + 1, m)

\* lines 104-182: dt, then the surfaces and the fenestrations, then the model
NewFinish ==
    /\ pc = "new_scan"
    /\ new.k = Len(building.constructions)
    /\ LET dt == ModelDt(n, new.n_subdivisions)
           ns == Len(building.surfaces)
           nf == Len(building.fenestrations)
       IN /\ model' = [model EXCEPT
                !.surfaces = ThermalSurfaces(building.surfaces, dt,
                                             new.all_n_elements, Len(state)),
                !.fenestrations = ThermalSurfaces(building.fenestrations, dt,
                                                  new.all_n_elements, Len(state) + 2 * ns),
                !.dt_subdivisions = new.n_subdivisions,
                !.dt = dt]
          /\ state' = state \o SurfacesStateElements(1, ns) \o SurfacesStateElements(1, nf)
    /\ pc' = "ready"
    /\ UNCHANGED <<building, n, weather, got, new, march, result, marches, trace>>

(***************************************************************************)
(* The getters of ThermalModel (src/src/model.rs)                          *)
(***************************************************************************)
\* no getter was called yet
NoAnswer == [fn |-> "none", index |-> 0, kind |-> "none", v |-> None]

\* the indices the getters are called with
Indices == 0..(MaxZones + 1)

\* OutOfBounds when an index equal to the length passes
OutOfBoundsBeyond(index, len) == index > len

\* lines 288, 300, 312: index >= len
OutOfBounds(index, len) == index >= len

\* lines 287-321: what a getter returns for the (0-based) index: the error
\* of internal_error, or the element; indexing past the end panics
GetElement(fn, elements, index) ==
    IF OutOfBounds(index, Len(elements))
    THEN [fn |-> fn, index |-> index, kind |-> "Err: Ouf of bounds", v |-> None]
    ELSE IF index + 1 \in DOMAIN elements
    THEN [fn |-> fn, index |-> index, kind |-> "Ok", v |-> elements[index + 1]]
    ELSE [fn |-> fn, index |-> index, kind |-> "panic: index out of bounds", v |-> None]

\* lines 287-296: get_thermal_zone
GetThermalZone ==
    /\ pc = "ready"
    /\ \E index \in Indices :
          got' = GetElement("get_thermal_zone", model.zones, index)
    /\ UNCHANGED <<building, n, weather, state, model, pc, new, march, result, marches, trace>>

\* lines 299-308: get_thermal_surface
GetThermalSurface ==
    /\ pc = "ready"
    /\ \E index \in Indices :
          got' = GetElement("get_thermal_surface", model.surfaces, index)
    /\ UNCHANGED <<building, n, weather, state, model, pc, new, march, result, marches, trace>>

\* lines 311-320: get_thermal_fenestration
GetThermalFenestration ==
    /\ pc = "ready"
    /\ \E index \in Indices :
          got' = GetElement("get_thermal_fenestration", model.fenestrations, index)
    /\ UNCHANGED <<building, n, weather, state, model, pc, new, march, result, marches, trace>>

(***************************************************************************)
(* The zone heat balance (src/src/model.rs)                                *)
(***************************************************************************)
\* the value of an optional state slot: Some(val), or None without a slot
StateValue(st, idx) == IF idx = 0 THEN None ELSE st[idx].val

\* crate::heating_cooling::calc_cooling_heating_power of an electric heater
CalcCoolingHeatingPower(hvac, consumption) == consumption

\* vec[i] += x
AddAt(vec, i, x) == [vec EXCEPT ![i] = FAdd(@, x)]

\* IterateHvacs when only the first target space of an HVAC is served
RECURSIVE IterateHvacsFirstTarget(_, _, _, _, _)
IterateHvacsFirstTarget(acc, bld, st, j, t) ==
    IF j > Len(bld.hvacs) THEN acc
    ELSE LET hvac == bld.hvacs[j]
         IN IF t > Len(hvac.target_spaces) \/ t > 1
            THEN IterateHvacsFirstTarget(acc, bld, st, j + 1, 1)
            ELSE LET consumption == StateValue(st, hvac.state_index)
                 IN IF consumption = None
                    THEN [acc EXCEPT !.ok = FALSE]
                    ELSE IterateHvacsFirstTarget(
                            [acc EXCEPT !.a = AddAt(@, hvac.target_spaces[t],
                                    CalcCoolingHeatingPower(hvac, consumption))],
                            bld, st, j, t + 1)

\* lines 376-384: the loop over the HVACs and their target spaces, from
\* target t of HVAC j on; acc is [a, b, c, ok], ok = FALSE after a panic
RECURSIVE IterateHvacs(_, _, _, _, _)
IterateHvacs(acc, bld, st, j, t) ==
    IF j > Len(bld.hvacs) THEN acc
    ELSE LET hvac == bld.hvacs[j]
         IN IF t > Len(hvac.target_spaces)
            THEN IterateHvacs(acc, bld, st, j + 1, 1)
            ELSE LET consumption == StateValue(st, hvac.state_index)
                 IN IF consumption = None
                    THEN [acc EXCEPT !.ok = FALSE]
                    ELSE IterateHvacs(
                            [acc EXCEPT !.a = AddAt(@, hvac.target_spaces[t],
                                    CalcCoolingHeatingPower(hvac, consumption))],
                            bld, st, j, t + 1)

\* lines 387-393: the loop over the luminaires, from luminaire j on
RECURSIVE IterateLuminaires(_, _, _, _)
IterateLuminaires(acc, bld, st, j) ==
    IF j > Len(bld.luminaires) \/ ~acc.ok THEN acc
    ELSE LET luminaire == bld.luminaires[j]
         IN IF luminaire.target_space = 0
            THEN IterateLuminaires(acc, bld, st, j + 1)
            ELSE LET consumption == StateValue(st, luminaire.state_index)
                 IN IF consumption = None
                    THEN [acc EXCEPT !.ok = FALSE]
                    ELSE IterateLuminaires(
                            [acc EXCEPT !.a = AddAt(@, luminaire.target_space, consumption)],
                            bld, st, j + 1)

\* lines 408-413 and 417-422: an air flow of m (m3/s) at temperature t into zone i
AirFlow(acc, i, m, t) ==
    LET cp_zone == AirSpecificHeat
        cp_inwards == AirSpecificHeat
    IN [acc EXCEPT !.a = AddAt(@, i, FMul(FMul(m, cp_inwards), t)),
                   !.b = AddAt(@, i, FMul(m, cp_zone))]

\* lines 408-413: infiltration of zone i
Infiltration(acc, space, st, i) ==
    LET t_inf_inwards == StateValue(st, space.infiltration_temperature_index)
        m_inf == StateValue(st, space.infiltration_volume_index)
    IN IF t_inf_inwards = None THEN acc
       ELSE IF m_inf = None THEN [acc EXCEPT !.ok = FALSE]
       ELSE AirFlow(acc, i, m_inf, t_inf_inwards)

\* Ventilation when the ventilation air is weighed by its density
VentilationByMass(acc, space, st, i) ==
    LET t_vent_inwards == StateValue(st, space.ventilation_temperature_index)
        m_vent == StateValue(st, space.ventilation_volume_index)
    IN IF t_vent_inwards = None THEN acc
       ELSE IF m_vent = None THEN [acc EXCEPT !.ok = FALSE]
       ELSE AirFlow(acc, i, FMul(AirDensity, m_vent), t_vent_inwards)

\* lines 417-422: ventilation of zone i
Ventilation(acc, space, st, i) ==
    LET t_vent_inwards == StateValue(st, space.ventilation_temperature_index)
        m_vent == StateValue(st, space.ventilation_volume_index)
    IN IF t_vent_inwards = None THEN acc
       ELSE IF m_vent = None THEN [acc EXCEPT !.ok = FALSE]
       ELSE AirFlow(acc, i, m_vent, t_vent_inwards)

\* lines 396-429: the loop over the zones, from zone i on
RECURSIVE IterateZones(_, _, _, _, _)
IterateZones(acc, zones, bld, st, i) ==
    IF i > Len(zones) \/ ~acc.ok THEN acc
    ELSE LET inf == Infiltration(acc, bld.spaces[i], st, i)
             vent == IF inf.ok THEN Ventilation(inf, bld.spaces[i], st, i) ELSE inf
         IN IF ~vent.ok THEN vent
            ELSE IterateZones([vent EXCEPT !.c[i] = Mcp(zones[i])], zones, bld, st, i + 1)

\* lines 442-447 and 450-455: one face of a surface, seen by the zone of its boundary
FaceToZone(acc, boundary, area, rs, temp) ==
    IF boundary.kind = "Space"
    THEN IF boundary.z \in 1..Len(acc.a)
         THEN LET hi == FDiv(Num(Scale), rs)
              IN [acc EXCEPT !.a = AddAt(@, boundary.z, FMul(FMul(hi, area), temp)),
                             !.b = AddAt(@, boundary.z, FMul(hi, area))]
         ELSE [acc EXCEPT !.ok = FALSE]
    ELSE acc

\* IterateSurfaces when only the front face of a surface is looked at
RECURSIVE IterateSurfacesFrontOnly(_, _, _, _)
IterateSurfacesFrontOnly(acc, surfaces, st, j) ==
    IF j > Len(surfaces) \/ ~acc.ok THEN acc
    ELSE LET s == surfaces[j]
             front == FaceToZone(acc, s.front_boundary, s.area, s.rs_front,
                                 FrontTemperature(s, st))
         IN IterateSurfacesFrontOnly(front, surfaces, st, j + 1)

\* lines 432-457: iterate_surfaces, from surface j on
RECURSIVE IterateSurfaces(_, _, _, _)
IterateSurfaces(acc, surfaces, st, j) ==
    IF j > Len(surfaces) \/ ~acc.ok THEN acc
    ELSE LET s == surfaces[j]
             front == FaceToZone(acc, s.front_boundary, s.area, s.rs_front,
                                 FrontTemperature(s, st))
             back == IF front.ok
                     THEN FaceToZone(front, s.back_boundary, s.area, s.rs_back,
                                     BackTemperature(s, st))
                     ELSE front
         IN IterateSurfaces(back, surfaces, st, j + 1)

\* lines 362-467: calculate_zones_abc; [a, b, c, ok], ok = FALSE when it panics
CalculateZonesAbc(m, bld, st) ==
    LET zeros == [i \in 1..Len(m.zones) |-> Num(0)]
        start == [a |-> zeros, b |-> zeros, c |-> zeros, ok |-> TRUE]
        hvacs == IterateHvacs(start, bld, st, 1, 1)
        luminaires == IterateLuminaires(hvacs, bld, st, 1)
        zones == IterateZones(luminaires, m.zones, bld, st, 1)
        surfaces == IterateSurfaces(zones, m.surfaces, st, 1)
    IN IterateSurfaces(surfaces, m.fenestrations, st, 1)

\* lines 471-484: get_current_zones_temperatures, each entry [ok, v]
GetCurrentZonesTemperatures(m, st) ==
    [i \in 1..Len(m.zones) |-> ZoneTemperature(m.zones[i], st)]

\* FutureTemperature when the zone jumps to its steady temperature
FutureTemperatureSteady(t_current, a, b, c, future_time) == FDiv(a, b)

\* FutureTemperature when the exponent loses its sign
FutureTemperatureGrowing(t_current, a, b, c, future_time) ==
    FAdd(FDiv(a, b),
         FMul(FSub(t_current, FDiv(a, b)),
              FExp(FDiv(FMul(b, future_time), c))))

\* line 533: the future temperature of one zone
FutureTemperature(t_current, a, b, c, future_time) ==
    FAdd(FDiv(a, b),
         FMul(FSub(t_current, FDiv(a, b)),
              FExp(FDiv(FMul(FNeg(b), future_time), c))))

\* lines 520-538: estimate_zones_future_temperatures
EstimateZonesFutureTemperatures(m, t_current, a, b, c, future_time) ==
    [i \in 1..Len(m.zones) |->
        FutureTemperature(t_current[i], a[i], b[i], c[i], future_time)]

(***************************************************************************)
(* ThermalModel::march (src/src/model.rs)                                  *)
(***************************************************************************)
\* one entry of the trace of a call of march: what was done (ev) in which
\* substep (k) to which element of its list (i), with which date and which
\* temperatures
Event(ev, k, i, date, t_front, t_back) ==
    [ev |-> ev, k |-> k, i |-> i, date |-> date,
     t_front |-> t_front, t_back |-> t_back]

\* what weather.get_weather_data can answer
OutdoorTemperatures == {Num(10 * Scale), Num(30 * Scale)}
WeatherData ==
    [dry_bulb_temperature : {None} \cup OutdoorTemperatures,
     wind_speed : {None, Num(0)},
     wind_direction : {None, Num(0)}]

\* a weather that knows no wind
Windless == {w \in WeatherData : w.wind_speed = None /\ w.wind_direction = None}

\* the dates march is called with
StartDates == {Rat(0, 1)}

\* lines 188-195: march is called with a date
MarchCall ==
    /\ pc = "ready"
    /\ marches < MaxMarches
    /\ \E date \in StartDates :
          march' = [NoMarch EXCEPT !.start = date, !.date = date]
    /\ marches' = marches + 1
    /\ pc' = "substep"
    /\ result' = "running"
    /\ trace' = <<>>
    /\ UNCHANGED <<building, n, weather, got, state, model, new>>

\* lines 198 and 275: after dt_subdivisions substeps march returns Ok(())
MarchReturn ==
    /\ pc = "substep"
    /\ march.k >= model.dt_subdivisions
    /\ pc' = "ready"
    /\ result' = "Ok"
    /\ UNCHANGED <<building, n, weather, got, state, model, new, march, marches, trace>>

\* line 200: date.add_seconds(self.dt)
AddSeconds(date, dt) == RatAdd(date, dt)

\* QueryDate when the weather is asked before the date is advanced
QueryDateStale(date, dt) == date

\* line 201: the date get_weather_data is asked for, date being the date
\* before line 200
QueryDate(date, dt) == AddSeconds(date, dt)

\* WeatherMissing when the wind speed is required as well
WeatherMissingWind(current_weather) ==
    \/ current_weather.dry_bulb_temperature = None
    \/ current_weather.wind_speed = None

\* WeatherMissing when the missing dry bulb temperature goes unnoticed
WeatherMissingIgnored(current_weather) == FALSE

\* lines 203-209: the weather has no dry bulb temperature
WeatherMissing(current_weather) == current_weather.dry_bulb_temperature = None

\* lines 200-211: what the head of a substep leaves when the weather answers
\* current_weather: the date advances, the dry bulb temperature is
\* required, the zones are read
SubstepHead(current_weather) ==
    LET date == AddSeconds(march.date, model.dt)
        t_out == current_weather.dry_bulb_temperature
        t_current == GetCurrentZonesTemperatures(model, state)
        queried == Append(trace,
              Event("weather", march.k + 1, 0, QueryDate(march.date, model.dt),
                    t_out, t_out))
        asked == [march EXCEPT !.date = date, !.current_weather = current_weather]
    IN IF WeatherMissing(current_weather)
       THEN [pc |-> "ready",
             result |-> "Err: dry bulb temperature was not provided",
             march |-> asked,
             trace |-> queried]
       ELSE IF \E i \in 1..Len(t_current) : ~t_current[i].ok
       THEN [pc |-> "panicked",
             result |-> "panic: incorrect state element",
             march |-> [asked EXCEPT !.t_out = t_out],
             trace |-> queried]
       ELSE [pc |-> "surfaces",
             result |-> result,
             march |-> [asked EXCEPT
                   !.t_out = t_out, !.i = 1,
                   !.t_current = [i \in 1..Len(t_current) |-> t_current[i].v]],
             trace |-> queried]

\* lines 198-211: the head of a substep, the weather answering any of what
\* it can answer
SubstepBegin ==
    /\ pc = "substep"
    /\ march.k < model.dt_subdivisions
    /\ \E current_weather \in weather :
          LET head == SubstepHead(current_weather)
          IN /\ pc' = head.pc
             /\ result' = head.result
             /\ march' = head.march
             /\ trace' = head.trace
    /\ UNCHANGED <<building, n, weather, got, state, model, new, marches>>

\* FaceTemperature when a face of a space is handed the outdoor temperature
FaceTemperatureOutdoor(boundary, t_current, t_out) ==
    CASE boundary.kind = "Ground" ->
            [ok |-> FALSE, v |-> NaN, why |-> "panic: not implemented"]
      [] OTHER -> [ok |-> TRUE, v |-> t_out, why |-> ""]

\* lines 221-234 and 246-259: the air temperature of one face, [ok, v];
\* ok = FALSE when the match panics
FaceTemperature(boundary, t_current, t_out) ==
    CASE boundary.kind = "None" -> [ok |-> TRUE, v |-> t_out, why |-> ""]
      [] boundary.kind = "Space" ->
            IF boundary.z \in 1..Len(t_current)
            THEN [ok |-> TRUE, v |-> t_current[boundary.z], why |-> ""]
            ELSE [ok |-> FALSE, v |-> NaN, why |-> "panic: index out of bounds"]
      [] OTHER -> [ok |-> FALSE, v |-> NaN, why |-> "panic: not implemented"]

\* lines 218-237 and 243-262: one surface of the list is advanced
MarchSurface(s, ev) ==
    LET t_front == FaceTemperature(s.front_boundary, march.t_current, march.t_out)
        t_back == FaceTemperature(s.back_boundary, march.t_current, march.t_out)
    IN IF t_front.ok /\ t_back.ok
       THEN /\ state' = SurfaceMarch(s, state, t_front.v, t_back.v)
            /\ trace' = Append(trace, Event(ev, march.k + 1, march.i, march.date,
                                            t_front.v, t_back.v))
            /\ march' = [march EXCEPT !.i = @ + 1]
            /\ UNCHANGED <<pc, result>>
       ELSE /\ pc' = "panicked"
            /\ result' = IF t_front.ok THEN t_back.why ELSE t_front.why
            /\ UNCHANGED <<state, trace, march>>

\* lines 216-238: one turn of the loop over the surfaces
SurfaceStep ==
    /\ pc = "surfaces"
    /\ march.i <= Len(model.surfaces)
    /\ MarchSurface(model.surfaces[march.i], "surface")
    /\ UNCHANGED <<building, n, weather, got, model, new, marches>>

\* SurfacesDone when the loop over the fenestrations is left out
SurfacesDoneSkipFenestrations ==
    /\ pc = "surfaces"
    /\ march.i > Len(model.surfaces)
    /\ pc' = "fenestrations"
    /\ march' = [march EXCEPT !.i = Len(model.fenestrations) + 1]
    /\ UNCHANGED <<building, n, weather, got, state, model, new, result, marches, trace>>

\* line 238: the loop over the surfaces ends
SurfacesDone ==
    /\ pc = "surfaces"
    /\ march.i > Len(model.surfaces)
    /\ pc' = "fenestrations"
    /\ march' = [march EXCEPT !.i = 1]
    /\ UNCHANGED <<building, n, weather, got, state, model, new, result, marches, trace>>

\* lines 241-263: one turn of the loop over the fenestrations
FenestrationStep ==
    /\ pc = "fenestrations"
    /\ march.i <= Len(model.fenestrations)
    /\ MarchSurface(model.fenestrations[march.i], "fenestration")
    /\ UNCHANGED <<building, n, weather, got, model, new, marches>>

\* lines 267-269: the coefficients and the future temperatures of the zones
ZonesUpdate ==
    /\ pc = "fenestrations"
    /\ march.i > Len(model.fenestrations)
    /\ LET abc == CalculateZonesAbc(model, building, state)
           dt == RatToFloat(model.dt)
       IN IF abc.ok
          THEN /\ march' = [march EXCEPT
                      !.i = 1, !.a = abc.a, !.b = abc.b, !.c = abc.c,
                      !.future_temperatures =
                          EstimateZonesFutureTemperatures(
                              model, march.t_current, abc.a, abc.b, abc.c, dt)]
               /\ pc' = "zones"
               /\ trace' = Append(trace, Event("abc", march.k + 1, 0, march.date, None, None))
               /\ result' = result
          ELSE /\ pc' = "panicked"
               /\ result' = "panic: expect"
               /\ UNCHANGED <<march, trace>>
    /\ UNCHANGED <<building, n, weather, got, state, model, new, marches>>

\* the value march stores for a zone (line 271)
StoredTemperature(future_temperature) == future_temperature

\* ZoneStep when the snapshot is taken again after the write
ZoneStepRefreshing ==
    /\ pc = "zones"
    /\ march.i <= Len(model.zones)
    /\ LET v == StoredTemperature(march.future_temperatures[march.i])
           written == SetTemperature(model.zones[march.i], v, state)
       IN /\ state' = written
          /\ trace' = Append(trace, Event("zone", march.k + 1, march.i, march.date, v, v))
          /\ march' = [march EXCEPT
                !.i = @ + 1,
                !.t_current = [i \in 1..Len(model.zones) |->
                                  ZoneTemperature(model.zones[i], written).v]]
    /\ UNCHANGED <<building, n, weather, got, model, pc, new, result, marches>>

\* ZoneStep when the temperature is pushed to the state as a new element
ZoneStepPushing ==
    /\ pc = "zones"
    /\ march.i <= Len(model.zones)
    /\ LET v == StoredTemperature(march.future_temperatures[march.i])
       IN /\ state' = Append(state, Element("SpaceDryBulbTemperature", march.i, v))
          /\ trace' = Append(trace, Event("zone", march.k + 1, march.i, march.date, v, v))
    /\ march' = [march EXCEPT !.i = @ + 1]
    /\ UNCHANGED <<building, n, weather, got, model, pc, new, result, marches>>

\* lines 270-272: one turn of the loop that writes the zones
ZoneStep ==
    /\ pc = "zones"
    /\ march.i <= Len(model.zones)
    /\ LET v == StoredTemperature(march.future_temperatures[march.i])
       IN /\ state' = SetTemperature(model.zones[march.i], v, state)
          /\ trace' = Append(trace, Event("zone", march.k + 1, march.i, march.date, v, v))
    /\ march' = [march EXCEPT !.i = @ + 1]
    /\ UNCHANGED <<building, n, weather, got, model, pc, new, result, marches>>

\* SubstepEnd when the engine forgets its subdivisions
SubstepEndForgetting ==
    /\ pc = "zones"
    /\ march.i > Len(model.zones)
    /\ march' = [march EXCEPT !.k = @ + 1]
    /\ model' = [model EXCEPT !.dt_subdivisions = 1]
    /\ pc' = "substep"
    /\ UNCHANGED <<building, n, weather, got, state, new, result, marches, trace>>

\* line 273: the substep ends
SubstepEnd ==
    /\ pc = "zones"
    /\ march.i > Len(model.zones)
    /\ march' = [march EXCEPT !.k = @ + 1]
    /\ pc' = "substep"
    /\ UNCHANGED <<building, n, weather, got, state, model, new, result, marches, trace>>

(***************************************************************************)
(* The caller of march, who owns the SimulationState                       *)
(***************************************************************************)
\* what a collaborator can leave in the slot of the temperature of zone i:
\* an element of another kind, or the temperature of another space
Miswirings(i) ==
    {Element("SpaceInfiltrationVolume", i, Num(InitialTemperature * Scale)),
     Element("SpaceDryBulbTemperature", i + 1, Num(InitialTemperature * Scale))}

\* between new and march the state is the caller's (&mut SimulationState):
\* a collaborator overwrites the slot of one zone
Miswire ==
    /\ pc = "ready"
    /\ result = "none"
    /\ \A i \in 1..Len(model.zones) : ZoneTemperature(model.zones[i], state).ok
    /\ \E i \in 1..Len(model.zones) : \E e \in Miswirings(i) :
          state' = [state EXCEPT ![model.zones[i].temperature_state_index] = e]
    /\ UNCHANGED <<building, n, weather, got, model, pc, new, march, result, marches, trace>>

(***************************************************************************)
(* The calls of ThermalZone (src/src/zone.rs)                              *)
(***************************************************************************)
\* Space::get_heating_cooling: the heater/cooler of the space, if any
GetHeatingCooling(space) ==
    IF "heating_cooling" \in DOMAIN space THEN space.heating_cooling ELSE "none"

\* what a call on a zone returns: the value, or the panic
Returned(fn, z, v) == [fn |-> fn, index |-> z, kind |-> "Ok", v |-> v]
Panicked(fn, z, why) == [fn |-> fn, index |-> z, kind |-> why, v |-> None]

\* lines 74-97: calc_heating_cooling_power of zone number z
CalcHeatingCoolingPower(z, bld, st) ==
    LET zone == model.zones[z]
        fn == "calc_heating_cooling_power"
        i == zone.heating_cooling_state_index
    IN IF i = 0 THEN Returned(fn, z, Num(0))
       ELSE IF st[i].kind = "SpaceHeatingCoolingPowerConsumption"
            THEN IF st[i].idx # zone.index
                 THEN Panicked(fn, z, "panic: wrong space")
                 ELSE LET heater_cooler == GetHeatingCooling(bld.spaces[st[i].idx])
                      IN IF heater_cooler = "none"
                         THEN Panicked(fn, z, "panic: unwrap")
                         ELSE Returned(fn, z,
                                  CalcCoolingHeatingPower(heater_cooler, st[i].val))
            ELSE Panicked(fn, z, "panic: incorrect state element")

\* lines 99-118: calc_lighting_power of zone number z
CalcLightingPower(z, st) ==
    LET zone == model.zones[z]
        fn == "calc_lighting_power"
        i == zone.luminaire_state_index
    IN IF i = 0 THEN Returned(fn, z, Num(0))
       ELSE IF st[i].kind = "SpaceLightingPowerConsumption"
            THEN IF st[i].idx = zone.index
                 THEN Panicked(fn, z, "panic: wrong space")
                 ELSE Returned(fn, z, st[i].val)
            ELSE Panicked(fn, z, "panic: incorrect state element")

\* a call that takes &self and the state by reference: it answers or panics
ZoneCall(answer) ==
    /\ got' = answer
    /\ IF answer.kind = "Ok"
       THEN UNCHANGED <<pc, result>>
       ELSE pc' = "panicked" /\ result' = answer.kind
    /\ UNCHANGED <<building, n, weather, state, model, new, march, marches, trace>>

CalcHeatingCoolingPowerCall ==
    /\ pc = "ready"
    /\ \E z \in 1..Len(model.zones) :
          ZoneCall(CalcHeatingCoolingPower(z, building, state))

CalcLightingPowerCall ==
    /\ pc = "ready"
    /\ \E z \in 1..Len(model.zones) :
          ZoneCall(CalcLightingPower(z, state))

\* the heats a caller hands to consume_heat, in J: none, what warms 40 m3
\* of air by 1 K, what cools it by half a kelvin
Heats == {Num(0), Num(48000 * Scale), Num(-24000 * Scale)}

\* ConsumeHeat when the heat is added as if it were a temperature
ConsumeHeatUndivided(zone, accumulated_heat, st) ==
    LET e == st[zone.temperature_state_index]
    IN IF e.kind = "SpaceDryBulbTemperature"
       THEN IF e.idx # zone.index
            THEN [ok |-> FALSE, st |-> st]
            ELSE [ok |-> TRUE,
                  st |-> [st EXCEPT ![zone.temperature_state_index] =
                            Element("SpaceDryBulbTemperature", e.idx,
                                    FAdd(e.val, accumulated_heat))]]
       ELSE [ok |-> FALSE, st |-> st]

\* lines 136-148: consume_heat, [ok, st]; ok = FALSE when it panics
ConsumeHeat(zone, accumulated_heat, st) ==
    LET delta_t == FDiv(accumulated_heat, Mcp(zone))
        e == st[zone.temperature_state_index]
    IN IF e.kind = "SpaceDryBulbTemperature"
       THEN IF e.idx # zone.index
            THEN [ok |-> FALSE, st |-> st]
            ELSE [ok |-> TRUE,
                  st |-> [st EXCEPT ![zone.temperature_state_index] =
                            Element("SpaceDryBulbTemperature", e.idx,
                                    FAdd(e.val, delta_t))]]
       ELSE [ok |-> FALSE, st |-> st]

\* the caller hands a heat to a zone; the call is counted among its calls
ConsumeHeatCall ==
    /\ pc = "ready"
    /\ marches < MaxMarches
    /\ \E z \in 1..Len(model.zones) : \E accumulated_heat \in Heats :
          LET r == ConsumeHeat(model.zones[z], accumulated_heat, state)
          IN /\ state' = r.st
             /\ got' = [fn |-> "consume_heat", index |-> z,
                        kind |-> IF r.ok THEN "Ok" ELSE "panic: incorrect state element",
                        v |-> accumulated_heat]
             /\ IF r.ok
                THEN UNCHANGED <<pc, result>>
                ELSE pc' = "panicked" /\ result' = "panic: incorrect state element"
    /\ marches' = marches + 1
    /\ UNCHANGED <<building, n, weather, model, new, march, trace>>

(***************************************************************************)
(* The buildings and the specifications                                    *)
(***************************************************************************)
Volumes == {Num(40 * Scale)}
Areas == {Num(2 * Scale)}
FilmResistances == {Num(Scale)}
WallResistances == {Num(2 * Scale)}

SpacesOf(nz) ==
    [1..nz -> [volume : Volumes,
               infiltration_temperature_index : {0},
               infiltration_volume_index : {0},
               ventilation_temperature_index : {0},
               ventilation_volume_index : {0}]]

\* the surfaces (or fenestrations) with these boundaries and constructions
SurfaceSet(fronts, backs, constructions) ==
    [front : fronts, back : backs, construction : constructions,
     area : Areas, rs_front : FilmResistances, rs_back : FilmResistances,
     r_value : WallResistances]

\* a wall (or window) between space 1 and the outdoors, of construction 1
Facade == CHOOSE s \in SurfaceSet({Space(1)}, {NoBoundary}, {1}) : TRUE
Facades(m) == [j \in 1..m |-> Facade]

ConstructionsOf(divisors, lo, hi) ==
    SeqsOf([tstep_subdivision : divisors, n_elements : {<<1>>}], lo, hi)

\* the loads of a building: the elements its equipment holds in the state
\* before new is called, and the equipment
NoLoads == [elements |-> <<>>, hvacs |-> <<>>, luminaires |-> <<>>]
Heater ==
    [elements |-> <<Element("HeatingCoolingPowerConsumption", 1, Num(100 * Scale))>>,
     hvacs |-> <<[target_spaces |-> <<1>>, state_index |-> 1]>>,
     luminaires |-> <<>>]

Building(spaces, constructions, surfaces, fenestrations, loads) ==
    [spaces |-> spaces, constructions |-> constructions,
     surfaces |-> surfaces, fenestrations |-> fenestrations,
     elements |-> loads.elements, hvacs |-> loads.hvacs,
     luminaires |-> loads.luminaires]

\* the buildings of Spec: facades between space 1 and the outdoors, the
\* other spaces isolated, one construction of any divisor, no equipment
Buildings ==
    {Building(sp, cs, Facades(ns), Facades(nf), l) :
        sp \in UNION {SpacesOf(nz) : nz \in 1..MaxZones},
        cs \in ConstructionsOf(1..MaxDivisor, 1, 1),
        ns \in 0..MaxSurfaces,
        nf \in 0..MaxFenestrations,
        l \in {NoLoads}}

\* the buildings of SpecFaces: every boundary on every face, of the
\* surfaces beside one window and of the fenestrations beside one wall;
\* one construction of divisor 2
FacesBuildings ==
    UNION {
      {Building(sp, cs, su, <<Facade>>, NoLoads) :
          sp \in SpacesOf(nz),
          cs \in ConstructionsOf({2}, 1, 1),
          su \in SeqsOf(SurfaceSet(Boundaries(nz), Boundaries(nz), {1}), 0, MaxSurfaces)}
      \cup
      {Building(sp, cs, <<Facade>>, fe, NoLoads) :
          sp \in SpacesOf(nz),
          cs \in ConstructionsOf({2}, 1, 1),
          fe \in SeqsOf(SurfaceSet(Boundaries(nz), Boundaries(nz), {1}), 0, MaxFenestrations)}
      : nz \in 1..MaxZones}

\* the elements a building with equipment holds in the state before new is
\* called: the consumption of a heater and of a luminaire, and the
\* infiltration and the ventilation of space z
LoadElements(z) ==
    <<Element("HeatingCoolingPowerConsumption", 1, Num(100 * Scale)),
      Element("LuminairePowerConsumption", 1, Num(50 * Scale)),
      Element("SpaceInfiltrationVolume", z, Num(Scale \div 20)),
      Element("SpaceInfiltrationTemperature", z, Num(10 * Scale)),
      Element("SpaceVentilationVolume", z, Num(Scale \div 10)),
      Element("SpaceVentilationTemperature", z, Num(30 * Scale))>>

\* the HVACs of a building of nz spaces: none, a heater of space 1, a heater
\* of spaces 1 and nz, a heater without consumption in the state
HvacsOf(nz) ==
    {<<>>,
     <<[target_spaces |-> <<1>>, state_index |-> 1]>>,
     <<[target_spaces |-> <<1, nz>>, state_index |-> 1]>>,
     <<[target_spaces |-> <<1>>, state_index |-> 0]>>}

\* its luminaires: none, one in space nz, one without space, one in space 1
\* without consumption in the state
LuminairesOf(nz) ==
    {<<>>,
     <<[target_space |-> nz, state_index |-> 2]>>,
     <<[target_space |-> 0, state_index |-> 2]>>,
     <<[target_space |-> 1, state_index |-> 0]>>}

\* an air flow into a space: the slots of its volume and of its temperature,
\* either of them missing
FlowsOf(volume_index, temperature_index) ==
    {<<0, 0>>, <<volume_index, temperature_index>>, <<0, temperature_index>>,
     <<volume_index, 0>>}

\* the spaces of a building whose space z has the infiltration inf and the
\* ventilation vent
SpacesWithFlows(nz, z, inf, vent) ==
    [i \in 1..nz |->
        [volume |-> CHOOSE v \in Volumes : TRUE,
         infiltration_volume_index |-> IF i = z THEN inf[1] ELSE 0,
         infiltration_temperature_index |-> IF i = z THEN inf[2] ELSE 0,
         ventilation_volume_index |-> IF i = z THEN vent[1] ELSE 0,
         ventilation_temperature_index |-> IF i = z THEN vent[2] ELSE 0]]

\* the buildings of SpecLoads: one wall and one window of space 1, one
\* construction of divisor 1, any equipment, any air flows into one space
EquippedBuildings ==
    UNION {
      {[spaces |-> SpacesWithFlows(nz, z, inf, vent),
        constructions |-> cs,
        surfaces |-> <<Facade>>, fenestrations |-> <<Facade>>,
        elements |-> LoadElements(z), hvacs |-> hv, luminaires |-> lu] :
          cs \in ConstructionsOf({1}, 1, 1),
          z \in 1..nz,
          inf \in FlowsOf(3, 4), vent \in FlowsOf(5, 6),
          hv \in HvacsOf(nz), lu \in LuminairesOf(nz)}
      : nz \in 1..MaxZones}

\* the buildings of SpecNew: any list of constructions of any divisors, one
\* space, facades of any of the constructions
ConstructedBuildings ==
    UNION {
      {Building(sp, cs, su, fe, NoLoads) :
          sp \in SpacesOf(1),
          su \in SeqsOf(SurfaceSet({Space(1)}, {NoBoundary}, 1..Len(cs)), 0, MaxSurfaces),
          fe \in SeqsOf(SurfaceSet({Space(1)}, {NoBoundary}, 1..Len(cs)), 0, MaxFenestrations)}
      : cs \in ConstructionsOf(0..MaxDivisor, 0, MaxConstructions)}

\* before new is called: the building, the steps per hour, and how many
\* calls of march were made (there are MaxMarches at most)
InitOf(buildings, steps, made, weathers) ==
    /\ building \in buildings
    /\ weather \in weathers
    /\ n \in steps
    /\ state = building.elements
    /\ model = EmptyModel
    /\ pc = "new"
    /\ new = [k |-> 0, n_subdivisions |-> 1, all_n_elements |-> <<>>]
    /\ march = NoMarch
    /\ result = "none"
    /\ marches = made
    /\ trace = <<>>
    /\ got = NoAnswer

Init == InitOf(Buildings, 1..MaxStepsPerHour, 0, {Windless})

Next ==
    \/ NewZones
    \/ NewScan
    \/ NewFinish
    \/ MarchCall
    \/ MarchReturn
    \/ SubstepBegin
    \/ SurfaceStep
    \/ SurfacesDone
    \/ FenestrationStep
    \/ ZonesUpdate
    \/ ZoneStep
    \/ SubstepEnd

Spec == Init /\ [][Next]_vars

\* one call of march on the buildings with every boundary
InitFaces == InitOf(FacesBuildings, {1}, MaxMarches - 1, {Windless})

SpecFaces == InitFaces /\ [][Next]_vars

\* the buildings with equipment
InitLoads == InitOf(EquippedBuildings, {1}, 0, {Windless})

SpecLoads == InitLoads /\ [][Next]_vars

\* march on a state a collaborator may have mis-wired
NextMiswired ==
    \/ NewZones
    \/ NewScan
    \/ NewFinish
    \/ Miswire
    \/ MarchCall
    \/ MarchReturn
    \/ SubstepBegin
    \/ SurfaceStep
    \/ SurfacesDone
    \/ FenestrationStep
    \/ ZonesUpdate
    \/ ZoneStep
    \/ SubstepEnd

SpecMiswired == Init /\ [][NextMiswired]_vars

\* the buildings of SpecWind: one space, one wall and one window, one
\* construction of any divisor
WindBuildings ==
    {Building(sp, cs, <<Facade>>, <<Facade>>, NoLoads) :
        sp \in SpacesOf(1),
        cs \in ConstructionsOf(1..MaxDivisor, 1, 1)}

\* march with a weather that answers with and without wind
InitWind == InitOf(WindBuildings, {1}, 0, {WeatherData})

SpecWind == InitWind /\ [][Next]_vars

\* the buildings of SpecDangling: a face of a wall beside one window, or of
\* a window beside one wall, may name a space the building does not have;
\* one construction of divisor 2
DanglingBoundaries(nz) == {NoBoundary, Space(1), Space(nz + 1)}
DanglingBuildings ==
    UNION {
      {Building(sp, cs, su, <<Facade>>, NoLoads) :
          sp \in SpacesOf(nz),
          cs \in ConstructionsOf({2}, 1, 1),
          su \in SeqsOf(SurfaceSet(DanglingBoundaries(nz), DanglingBoundaries(nz), {1}),
                        1, MaxSurfaces)}
      \cup
      {Building(sp, cs, <<Facade>>, fe, NoLoads) :
          sp \in SpacesOf(nz),
          cs \in ConstructionsOf({2}, 1, 1),
          fe \in SeqsOf(SurfaceSet(DanglingBoundaries(nz), DanglingBoundaries(nz), {1}),
                        1, MaxFenestrations)}
      : nz \in 1..MaxZones}

InitDangling == InitOf(DanglingBuildings, {1}, MaxMarches - 1, {Windless})

SpecDangling == InitDangling /\ [][Next]_vars

\* the buildings of SpecVolumes: spaces of any volume, the empty one
\* included; facades between space 1 and the outdoors, one construction of
\* divisor 1
AnyVolumes == Volumes \cup {Num(0)}
VolumeBuildings ==
    {Building(sp, cs, Facades(ns), Facades(nf), NoLoads) :
        sp \in UNION {[1..nz -> [volume : AnyVolumes,
                                 infiltration_temperature_index : {0},
                                 infiltration_volume_index : {0},
                                 ventilation_temperature_index : {0},
                                 ventilation_volume_index : {0}]] : nz \in 1..MaxZones},
        cs \in ConstructionsOf({1}, 1, 1),
        ns \in 0..MaxSurfaces,
        nf \in 0..MaxFenestrations}

InitVolumes == InitOf(VolumeBuildings, {1}, 0, {Windless})

SpecVolumes == InitVolumes /\ [][Next]_vars

\* the buildings of SpecWarm: one space of 1 m3 with one wall between it
\* and the outdoors and no window, any constructions of any divisors, no
\* equipment; the weather is 30 C at every date
WarmBuildings ==
    {Building(sp, cs, <<Facade>>, <<>>, NoLoads) :
        sp \in [1..1 -> [volume : {Num(Scale)},
                         infiltration_temperature_index : {0},
                         infiltration_volume_index : {0},
                         ventilation_temperature_index : {0},
                         ventilation_volume_index : {0}]],
        cs \in ConstructionsOf(1..MaxDivisor, 1, MaxConstructions)}

WarmOutdoors == Num(30 * Scale)
WarmWeather ==
    {[dry_bulb_temperature |-> WarmOutdoors, wind_speed |-> None, wind_direction |-> None]}

InitWarm == InitOf(WarmBuildings, 1..MaxStepsPerHour, 0, {WarmWeather})

\* march on a building without windows: no fenestration is ever advanced
NextWarm ==
    \/ NewZones
    \/ NewScan
    \/ NewFinish
    \/ MarchCall
    \/ MarchReturn
    \/ SubstepBegin
    \/ SurfaceStep
    \/ SurfacesDone
    \/ ZonesUpdate
    \/ ZoneStep
    \/ SubstepEnd

SpecWarm == InitWarm /\ [][NextWarm]_vars

\* the buildings of SpecPower: one space whose heating/cooling and lighting
\* slots are any of the two elements the building holds in the state, or
\* none; the elements are consumptions of heating/cooling or of lighting,
\* of any space
PowerElements ==
    {Element(kind, z, Num(50 * Scale)) :
        kind \in {"SpaceHeatingCoolingPowerConsumption", "SpaceLightingPowerConsumption"},
        z \in 1..MaxZones}
PowerBuildings ==
    {[spaces |-> sp, constructions |-> cs, surfaces |-> <<>>, fenestrations |-> <<>>,
      elements |-> el, hvacs |-> <<>>, luminaires |-> <<>>] :
        sp \in [1..1 -> [volume : Volumes,
                         infiltration_temperature_index : {0},
                         infiltration_volume_index : {0},
                         ventilation_temperature_index : {0},
                         ventilation_volume_index : {0},
                         heating_cooling : {"none", "ElectricHeating"},
                         heating_cooling_state_index : 0..2,
                         luminaire_state_index : 0..2]],
        cs \in ConstructionsOf({1}, 1, 1),
        el \in [1..2 -> PowerElements]}

InitPower == InitOf(PowerBuildings, {1}, 0, {Windless})

\* ThermalModel::new and then the powers of the zones
NextPower ==
    \/ NewZones
    \/ NewScan
    \/ NewFinish
    \/ CalcHeatingCoolingPowerCall
    \/ CalcLightingPowerCall

SpecPower == InitPower /\ [][NextPower]_vars

\* ThermalModel::new and then heat handed to the zones of a state a
\* collaborator may have mis-wired
NextHeat ==
    \/ NewZones
    \/ NewScan
    \/ NewFinish
    \/ Miswire
    \/ ConsumeHeatCall

SpecHeat == Init /\ [][NextHeat]_vars

\* the buildings of SpecDivisors: any list of constructions of any divisors,
\* 0 included; one space, with one wall and one window of the first
\* construction when there is one
DivisorBuildings ==
    {Building(sp, cs,
              IF cs = <<>> THEN <<>> ELSE <<Facade>>,
              IF cs = <<>> THEN <<>> ELSE <<Facade>>, NoLoads) :
        sp \in SpacesOf(1),
        cs \in ConstructionsOf(0..MaxDivisor, 0, MaxConstructions)}

InitDivisors == InitOf(DivisorBuildings, 1..MaxStepsPerHour, 0, {WarmWeather})

SpecDivisors == InitDivisors /\ [][Next]_vars

\* ThermalModel::new and then the getters
NextGet ==
    \/ NewZones
    \/ NewScan
    \/ NewFinish
    \/ GetThermalZone
    \/ GetThermalSurface
    \/ GetThermalFenestration

SpecGet == Init /\ [][NextGet]_vars

\* ThermalModel::new alone, on any list of constructions
InitNew == InitOf(ConstructedBuildings, 1..MaxStepsPerHour, 0, {Windless})

NextNew ==
    \/ NewZones
    \/ NewScan
    \/ NewFinish

SpecNew == InitNew /\ [][NextNew]_vars

(***************************************************************************)
(* Properties of ThermalModel::new                                         *)
(***************************************************************************)
MaxOf(S) == CHOOSE x \in S : \A y \in S : y <= x

\* the substep divisors discretize_construction returns for a building
Divisors(bld) ==
    {DiscretizeConstruction(bld.constructions[k])[1] : k \in 1..Len(bld.constructions)}

\* the main timestep divided by d, in seconds
MainDtOver(d) == Rat(SecondsPerHour, n * d)

\* C3: after new, dt_subdivisions is the largest of the divisors
\* discretize_construction returned for the constructions of the building,
\* and 1 when there is none.
C3_DtSubdivisionsIsMaxDivisor ==
    pc = "ready" => model.dt_subdivisions = MaxOf(Divisors(building) \cup {1})

\* C4: after new, dt is at most main_dt / tstep_subdivision of every
\* construction, and every surface and fenestration was built with that dt.
C4_DtWithinEveryConstruction ==
    pc = "ready" =>
        /\ \A d \in Divisors(building) : d = 0 \/ RatLeq(model.dt, MainDtOver(d))
        /\ \A j \in 1..Len(model.surfaces) : model.surfaces[j].dt = model.dt
        /\ \A j \in 1..Len(model.fenestrations) : model.fenestrations[j].dt = model.dt

\* C4 witness: a model built from two constructions of different divisors,
\* with a surface and a fenestration of the construction of the smaller one
C4_Witness ==
    /\ pc = "ready"
    /\ Len(building.constructions) = 2
    /\ building.constructions[1].tstep_subdivision = 1
    /\ building.constructions[2].tstep_subdivision = 2
    /\ Len(model.surfaces) >= 1
    /\ Len(model.fenestrations) >= 1
    /\ building.surfaces[1].construction = 1
    /\ building.fenestrations[1].construction = 1
    /\ model.dt = MainDtOver(2)

(***************************************************************************)
(* Properties of ThermalModel::march                                       *)
(***************************************************************************)
\* the date j substeps after the start of the call
StartPlus(j) == RatAdd(march.start, RatMulInt(model.dt, j))

Last(seq) == seq[Len(seq)]
IsErr(r) == r = "Err: dry bulb temperature was not provided"
InSubstep == pc \in {"surfaces", "fenestrations", "zones"}
Positions(ev, k) == {p \in DOMAIN trace : trace[p].ev = ev /\ trace[p].k = k}
Writes == {"surface", "fenestration", "zone"}

\* the element kinds of the state that belong to zones and to surfaces
ZoneSlots == {p \in DOMAIN state : state[p].kind = "SpaceDryBulbTemperature"}
NodeSlots == {p \in DOMAIN state : state[p].kind = "SurfaceNodeTemperature"}

\* the weather answer of substep k of this call, as the trace holds it
OutdoorOf(k) == trace[CHOOSE p \in Positions("weather", k) : TRUE].t_front

\* the air temperature a face is to be handed in substep k
ExpectedFaceTemperature(boundary, k) ==
    IF boundary.kind = "Space"
    THEN ZoneTemperature(model.zones[boundary.z], state).v
    ELSE OutdoorOf(k)

\* C1: the temperature handed to a face in a substep is the temperature the
\* zone of its boundary had when the substep started (which the zone's slot
\* still holds while surfaces and fenestrations are advanced), and the
\* outdoor dry bulb temperature of that substep for a face without boundary.
C1_FacesSeeSnapshotOrOutdoor ==
    pc \in {"surfaces", "fenestrations"} =>
        \A p \in DOMAIN trace :
            (trace[p].k = march.k + 1 /\ trace[p].ev \in {"surface", "fenestration"}) =>
                LET s == IF trace[p].ev = "surface"
                         THEN model.surfaces[trace[p].i]
                         ELSE model.fenestrations[trace[p].i]
                IN /\ trace[p].t_front = ExpectedFaceTemperature(s.front_boundary, trace[p].k)
                   /\ trace[p].t_back = ExpectedFaceTemperature(s.back_boundary, trace[p].k)

\* C1 witness: in the second substep a fenestration between a zone and the
\* outdoors was advanced, the zone no longer at its initial temperature and
\* the outdoor temperature another one than in the first substep
C1_Witness ==
    /\ pc = "fenestrations"
    /\ march.k = 1
    /\ Len(model.surfaces) = 1
    /\ march.i = 2
    /\ model.fenestrations[1].front_boundary = Space(1)
    /\ model.fenestrations[1].back_boundary = NoBoundary
    /\ Last(trace).ev = "fenestration"
    /\ Last(trace).t_front # Num(InitialTemperature * Scale)
    /\ Last(trace).t_front # Last(trace).t_back
    /\ IsFinite(Last(trace).t_front)
    /\ OutdoorOf(1) # OutdoorOf(2)
    /\ Last(trace).t_back = OutdoorOf(2)

\* what one substep does: the weather, the surfaces, the fenestrations,
\* calculate_zones_abc, the zones
SubstepLength == 2 + Len(model.surfaces) + Len(model.fenestrations) + Len(model.zones)

\* the p-th thing a call of march does when substeps follow the order
ExpectedEvent(p) ==
    LET r == (p - 1) % SubstepLength
        ns == Len(model.surfaces)
        nf == Len(model.fenestrations)
    IN [k |-> ((p - 1) \div SubstepLength) + 1,
        ev |-> CASE r = 0 -> "weather"
                 [] r \in 1..ns -> "surface"
                 [] r \in (ns + 1)..(ns + nf) -> "fenestration"
                 [] r = ns + nf + 1 -> "abc"
                 [] OTHER -> "zone",
        i |-> CASE r = 0 -> 0
                [] r \in 1..ns -> r
                [] r \in (ns + 1)..(ns + nf) -> r - ns
                [] r = ns + nf + 1 -> 0
                [] OTHER -> r - ns - nf - 1]

SubstepOrder ==
    \A p \in DOMAIN trace :
        /\ trace[p].k = ExpectedEvent(p).k
        /\ trace[p].ev = ExpectedEvent(p).ev
        /\ trace[p].i = ExpectedEvent(p).i

\* a step of march that changes a slot of the state is the write the trace
\* names, and changes only the slots of that zone or surface
WritesFollowOrder ==
    (pc \notin {"new", "new_scan"} /\ state' # state) =>
        /\ trace' = Append(trace, Last(trace'))
        /\ Last(trace').ev \in Writes
        /\ Last(trace').ev = "zone" =>
              \A p \in DOMAIN state :
                  state'[p] # state[p] =>
                      p = model.zones[Last(trace').i].temperature_state_index
        /\ Last(trace').ev = "surface" =>
              \A p \in DOMAIN state :
                  state'[p] # state[p] =>
                      p \in {model.surfaces[Last(trace').i].front_node,
                             model.surfaces[Last(trace').i].back_node}
        /\ Last(trace').ev = "fenestration" =>
              \A p \in DOMAIN state :
                  state'[p] # state[p] =>
                      p \in {model.fenestrations[Last(trace').i].front_node,
                             model.fenestrations[Last(trace').i].back_node}

\* C2: in every substep every surface and then every fenestration is
\* advanced once before calculate_zones_abc, and the zones are written after
\* it, last; the state changes only by these writes.
C2_SurfacesThenAbcThenZones == []SubstepOrder /\ [][WritesFollowOrder]_vars

\* C2 witness: a march of two substeps returned, with a surface, a
\* fenestration and two zones
C2_Witness ==
    /\ pc = "ready"
    /\ result = "Ok"
    /\ model.dt_subdivisions = 2
    /\ Len(model.surfaces) = 1
    /\ Len(model.fenestrations) = 1
    /\ Len(model.zones) = 2
    /\ Len(trace) = 2 * SubstepLength

\* C5: a march that returns Ok has run dt_subdivisions substeps, each
\* advancing the date by dt, and ends 3600 / steps_per_hour seconds after
\* its start.
C5_MarchAdvancesOneMainStep ==
    /\ pc = "substep" => march.date = StartPlus(march.k)
    /\ InSubstep => march.date = StartPlus(march.k + 1)
    /\ (pc = "ready" /\ result = "Ok") =>
          /\ march.k = model.dt_subdivisions
          /\ \A k \in 1..model.dt_subdivisions : Cardinality(Positions("abc", k)) = 1
          /\ \A p \in DOMAIN trace : trace[p].k \in 1..model.dt_subdivisions
          /\ march.date = RatAdd(march.start, Rat(SecondsPerHour, n))

\* C5 witness: a march of two substeps returned Ok, two steps per hour
C5_Witness ==
    /\ pc = "ready"
    /\ result = "Ok"
    /\ model.dt_subdivisions = 2
    /\ n = 2
    /\ march.date = Rat(SecondsPerHour, 2)

\* C6: the weather is asked once in every substep, the k-th time for the date
\* k * dt after the start, before anything of that substep is written.
C6_WeatherOncePerSubstepAtNewDate ==
    /\ \A p \in DOMAIN trace :
          /\ Cardinality(Positions("weather", trace[p].k)) = 1
          /\ \A q \in Positions("weather", trace[p].k) : q <= p
          /\ trace[p].ev = "weather" => trace[p].date = StartPlus(trace[p].k)
    /\ InSubstep => Positions("weather", march.k + 1) # {}
    /\ pc = "substep" => \A k \in 1..march.k : Positions("weather", k) # {}

\* C6 witness: the second substep of a march wrote a zone
C6_Witness ==
    /\ pc = "zones"
    /\ march.k = 1
    /\ Len(trace) > 0
    /\ Last(trace).ev = "zone"
    /\ Positions("weather", 2) # {}
    /\ trace[CHOOSE p \in Positions("weather", 2) : TRUE].date = RatMulInt(model.dt, 2)
    /\ Len(model.surfaces) = 1

\* the step that meets a weather without dry bulb temperature
AbortsOnMissingWeather ==
    (trace' # trace /\ Len(trace') > 0 /\ Last(trace').ev = "weather"
        /\ Last(trace').t_front = None) =>
            /\ pc = "substep"
            /\ state' = state
            /\ march'.k = march.k
            /\ pc' = "ready"
            /\ IsErr(result')

\* after the error the call is over
NothingAfterError ==
    IsErr(result) =>
        /\ pc = "ready"
        /\ Last(trace).ev = "weather"
        /\ Last(trace).t_front = None
        /\ Last(trace).k = march.k + 1

\* C7: when the weather of a substep has no dry bulb temperature, march
\* returns the error at once: the step writes nothing, so the state is the
\* one the substeps completed before left, and no substep follows.
C7_MissingWeatherAbortsWithoutWrite ==
    [][AbortsOnMissingWeather]_vars /\ []NothingAfterError

\* C7 witness: the weather was missing in the second substep, after the
\* first one had changed a zone
C7_Witness ==
    /\ IsErr(result)
    /\ march.k = 1
    /\ \E p \in ZoneSlots : state[p].val # Num(InitialTemperature * Scale)

\* C8: a Ground boundary makes march return an UnsupportedBoundary error; it
\* does not panic.
C8_GroundIsAnErrorNotAPanic == result # "panic: not implemented"

\* C9: a zone whose B is zero keeps the temperature it had at the start of
\* the substep.
C9_IsolatedZoneKeepsTemperature ==
    pc = "zones" =>
        \A i \in 1..Len(model.zones) :
            march.b[i] = Num(0) => march.future_temperatures[i] = march.t_current[i]

\* C10: no zone temperature slot ever holds a value that is not finite.
C10_ZoneTemperaturesStayFinite ==
    \A p \in ZoneSlots : IsFinite(state[p].val)

(***************************************************************************)
(* Properties of the zone heat balance                                     *)
(***************************************************************************)
\* the coefficients have just been assembled: nothing was written since
Assembled == pc = "zones" /\ march.i = 1

\* the building without the infiltration of any space
WithoutInfiltration(bld) ==
    [bld EXCEPT !.spaces = [i \in DOMAIN bld.spaces |->
        [bld.spaces[i] EXCEPT !.infiltration_temperature_index = 0,
                              !.infiltration_volume_index = 0]]]

\* the building without the ventilation of any space
WithoutVentilation(bld) ==
    [bld EXCEPT !.spaces = [i \in DOMAIN bld.spaces |->
        [bld.spaces[i] EXCEPT !.ventilation_temperature_index = 0,
                              !.ventilation_volume_index = 0]]]

\* rho * V * cp, the heat an air flow of V carries per kelvin
FlowConductance(v) == FMul(FMul(AirDensity, v), AirSpecificHeat)

\* C11: the infiltration of zone i adds rho * V_inf * cp * T_inf to A_i and
\* rho * V_inf * cp to B_i, and a space without infiltration temperature
\* adds nothing.
C11_InfiltrationCarriesDensity ==
    Assembled =>
        LET without == CalculateZonesAbc(model, WithoutInfiltration(building), state)
        IN \A i \in 1..Len(model.zones) :
              LET space == building.spaces[i]
                  t_inf == StateValue(state, space.infiltration_temperature_index)
                  v_inf == StateValue(state, space.infiltration_volume_index)
              IN IF t_inf = None
                 THEN /\ march.a[i] = without.a[i]
                      /\ march.b[i] = without.b[i]
                 ELSE /\ march.a[i] =
                            FAdd(without.a[i], FMul(FlowConductance(v_inf), t_inf))
                      /\ march.b[i] = FAdd(without.b[i], FlowConductance(v_inf))

\* the building whose spaces have their infiltration and their ventilation
\* exchanged
FlowsExchanged(bld) ==
    [bld EXCEPT !.spaces = [i \in DOMAIN bld.spaces |->
        [bld.spaces[i] EXCEPT
            !.infiltration_temperature_index = bld.spaces[i].ventilation_temperature_index,
            !.infiltration_volume_index = bld.spaces[i].ventilation_volume_index,
            !.ventilation_temperature_index = bld.spaces[i].infiltration_temperature_index,
            !.ventilation_volume_index = bld.spaces[i].infiltration_volume_index]]]

\* space i takes air in by infiltration or by ventilation
HasFlow(i) ==
    \/ StateValue(state, building.spaces[i].infiltration_temperature_index) # None
    \/ StateValue(state, building.spaces[i].ventilation_temperature_index) # None

\* C12: ventilation follows the formula of infiltration (a flow and its
\* temperature add the same to A and B as ventilation and as infiltration),
\* the two are summed independently, and the zones without air flow get
\* nothing from them.
C12_VentilationLikeInfiltration ==
    Assembled =>
        LET exchanged == CalculateZonesAbc(model, FlowsExchanged(building), state)
            inf_only == CalculateZonesAbc(model, WithoutVentilation(building), state)
            vent_only == CalculateZonesAbc(model, WithoutInfiltration(building), state)
            neither == CalculateZonesAbc(model,
                            WithoutVentilation(WithoutInfiltration(building)), state)
        IN /\ exchanged.a = march.a
           /\ exchanged.b = march.b
           /\ \A i \in 1..Len(model.zones) :
                 /\ FSub(march.a[i], neither.a[i]) =
                        FAdd(FSub(inf_only.a[i], neither.a[i]),
                             FSub(vent_only.a[i], neither.a[i]))
                 /\ FSub(march.b[i], neither.b[i]) =
                        FAdd(FSub(inf_only.b[i], neither.b[i]),
                             FSub(vent_only.b[i], neither.b[i]))
                 /\ ~HasFlow(i) => /\ march.a[i] = neither.a[i]
                                   /\ march.b[i] = neither.b[i]

\* C12 witness: of two zones, the second has infiltration and ventilation of
\* different flows and temperatures, and both reached its coefficients
C12_Witness ==
    /\ Assembled
    /\ Len(model.zones) = 2
    /\ ~HasFlow(1)
    /\ StateValue(state, building.spaces[2].infiltration_temperature_index) = Num(10 * Scale)
    /\ StateValue(state, building.spaces[2].ventilation_temperature_index) = Num(30 * Scale)
    /\ StateValue(state, building.spaces[2].infiltration_volume_index) # None
    /\ StateValue(state, building.spaces[2].ventilation_volume_index) # None
    /\ march.b[2] = FAdd(FMul(Num(Scale \div 20), AirSpecificHeat),
                         FMul(Num(Scale \div 10), AirSpecificHeat))

\* h * area of one face if it sees zone i, else nothing
FaceB(boundary, area, rs, i) ==
    IF boundary = Space(i) THEN FMul(FDiv(Num(Scale), rs), area) ELSE Num(0)

\* h * area * T_face of one face if it sees zone i, else nothing
FaceA(boundary, area, rs, temp, i) ==
    IF boundary = Space(i) THEN FMul(FMul(FDiv(Num(Scale), rs), area), temp) ELSE Num(0)

\* the sum of h * area over the faces of the surfaces that see zone i
RECURSIVE SumFacesB(_, _)
SumFacesB(surfaces, i) ==
    IF surfaces = <<>> THEN Num(0)
    ELSE LET s == Head(surfaces)
         IN FAdd(FAdd(FaceB(s.front_boundary, s.area, s.rs_front, i),
                      FaceB(s.back_boundary, s.area, s.rs_back, i)),
                 SumFacesB(Tail(surfaces), i))

\* the sum of h * area * T_face over the faces of the surfaces that see zone i
RECURSIVE SumFacesA(_, _, _)
SumFacesA(surfaces, st, i) ==
    IF surfaces = <<>> THEN Num(0)
    ELSE LET s == Head(surfaces)
         IN FAdd(FAdd(FaceA(s.front_boundary, s.area, s.rs_front,
                            FrontTemperature(s, st), i),
                      FaceA(s.back_boundary, s.area, s.rs_back,
                            BackTemperature(s, st), i)),
                 SumFacesA(Tail(surfaces), st, i))

\* the building has no HVAC, luminaire, infiltration or ventilation
Unequipped ==
    /\ building.hvacs = <<>>
    /\ building.luminaires = <<>>
    /\ \A i \in DOMAIN building.spaces : ~HasFlow(i)

\* C13: without HVAC, luminaire, infiltration and ventilation the
\* coefficients have one entry per zone, A_i and B_i are the sums of
\* h * area * T_face and of h * area over the faces (front and back, of
\* surfaces and of fenestrations) that see zone i, and C_i = zones[i].mcp().
C13_CoefficientsAreFaceSums ==
    (Assembled /\ Unequipped) =>
        /\ Len(march.a) = Len(model.zones)
        /\ Len(march.b) = Len(model.zones)
        /\ Len(march.c) = Len(model.zones)
        /\ \A i \in 1..Len(model.zones) :
              /\ march.a[i] = FAdd(SumFacesA(model.surfaces, state, i),
                                   SumFacesA(model.fenestrations, state, i))
              /\ march.b[i] = FAdd(SumFacesB(model.surfaces, i),
                                   SumFacesB(model.fenestrations, i))
              /\ march.c[i] = Mcp(model.zones[i])

\* C13 witness: a wall with both faces in zone 1 beside a window of zone 1
\* counts three faces for zone 1; zone 2 has none
C13_Witness ==
    /\ Assembled
    /\ Unequipped
    /\ Len(model.zones) = 2
    /\ Len(model.surfaces) = 1
    /\ model.surfaces[1].front_boundary = Space(1)
    /\ model.surfaces[1].back_boundary = Space(1)
    /\ march.b[1] = Num(6 * Scale)
    /\ march.b[2] = Num(0)
    /\ march.a[1] # Num(0)

\* the building without HVACs and luminaires
WithoutEquipment(bld) == [bld EXCEPT !.hvacs = <<>>, !.luminaires = <<>>]

\* the power one HVAC delivers to zone i: once for each of its target
\* spaces that is space i
RECURSIVE HvacGain(_, _, _, _)
HvacGain(hvac, st, i, t) ==
    IF t > Len(hvac.target_spaces) THEN Num(0)
    ELSE FAdd(IF hvac.target_spaces[t] = i
              THEN CalcCoolingHeatingPower(hvac, StateValue(st, hvac.state_index))
              ELSE Num(0),
              HvacGain(hvac, st, i, t + 1))

\* the power the HVACs deliver to zone i
RECURSIVE HvacGains(_, _, _)
HvacGains(hvacs, st, i) ==
    IF hvacs = <<>> THEN Num(0)
    ELSE FAdd(HvacGain(Head(hvacs), st, i, 1), HvacGains(Tail(hvacs), st, i))

\* the power the luminaires of space i consume
RECURSIVE LuminaireGains(_, _, _)
LuminaireGains(luminaires, st, i) ==
    IF luminaires = <<>> THEN Num(0)
    ELSE FAdd(IF Head(luminaires).target_space = i
              THEN StateValue(st, Head(luminaires).state_index)
              ELSE Num(0),
              LuminaireGains(Tail(luminaires), st, i))

\* C14: the HVACs add their delivered power to A of each of their target
\* spaces and the luminaires with a target space their consumption to A of
\* that space; no B changes, no A of another zone changes, and a luminaire
\* without target space adds nothing.
C14_LoadsGoToTargetsOnly ==
    Assembled =>
        LET bare == CalculateZonesAbc(model, WithoutEquipment(building), state)
        IN /\ march.b = bare.b
           /\ \A i \in 1..Len(model.zones) :
                 march.a[i] = FAdd(bare.a[i],
                                   FAdd(HvacGains(building.hvacs, state, i),
                                        LuminaireGains(building.luminaires, state, i)))

\* C14 witness: a heater of 100 W for spaces 1 and 2 and a luminaire of 50 W
\* in space 2 have entered A
C14_Witness ==
    /\ Assembled
    /\ Len(model.zones) = 2
    /\ Len(building.hvacs) = 1
    /\ building.hvacs[1].target_spaces = <<1, 2>>
    /\ Len(building.luminaires) = 1
    /\ building.luminaires[1].target_space = 2
    /\ LET bare == CalculateZonesAbc(model, WithoutEquipment(building), state)
       IN /\ march.a[1] = FAdd(bare.a[1], Num(100 * Scale))
          /\ march.a[2] = FAdd(bare.a[2], Num(150 * Scale))

\* the step writes zone i
WritesZone(i) ==
    /\ pc = "zones"
    /\ march.i = i
    /\ trace' = Append(trace, Last(trace'))
    /\ Last(trace').ev = "zone"
    /\ Last(trace').i = i

\* the substep of the model: 3600 / (n * dt_subdivisions) seconds
SubstepSeconds == RatToFloat(Rat(SecondsPerHour, n * model.dt_subdivisions))

\* A/B + (T - A/B) * exp(-B * dt / C)
Relaxed(t, a, b, c, dt) ==
    LET steady == FDiv(a, b)
    IN FAdd(steady, FMul(FSub(t, steady), FExp(FDiv(FMul(FNeg(b), dt), c))))

\* C15: the temperature written to a zone with B_i # 0 is
\* A_i/B_i + (T_i - A_i/B_i) * exp(-B_i * dt / C_i), T_i being the zone's
\* temperature at the start of the substep (its slot is untouched until
\* this write), A_i, B_i, C_i the coefficients of the state the surfaces
\* left, and dt the substep of the model.
C15_ZoneUpdateIsExponentialRelaxation ==
    [][\A i \in 1..Len(model.zones) :
        WritesZone(i) =>
            LET slot == model.zones[i].temperature_state_index
                abc == CalculateZonesAbc(model, building, state)
            IN abc.b[i] # Num(0) =>
                  state'[slot].val =
                      Relaxed(state[slot].val, abc.a[i], abc.b[i], abc.c[i],
                              SubstepSeconds)]_vars

\* C15 witness: in the second of two substeps of half an hour's half, zone 1,
\* which has faces, was written a temperature that is neither the one it
\* had nor its steady one
C15_Witness ==
    /\ pc = "zones"
    /\ march.k = 1
    /\ march.i = 2
    /\ n = 2
    /\ model.dt_subdivisions = 2
    /\ march.b[1] # Num(0)
    /\ Last(trace).ev = "zone"
    /\ IsFinite(Last(trace).t_front)
    /\ Last(trace).t_front # march.t_current[1]
    /\ Last(trace).t_front # FDiv(march.a[1], march.b[1])
    /\ state[model.zones[1].temperature_state_index].val = Last(trace).t_front

(***************************************************************************)
(* Properties of the getters                                               *)
(***************************************************************************)
\* the array a getter reads
ArrayOf(fn) ==
    CASE fn = "get_thermal_zone" -> model.zones
      [] fn = "get_thermal_surface" -> model.surfaces
      [] fn = "get_thermal_fenestration" -> model.fenestrations

\* what the last getter returned is right
GetterAnswers ==
    got.fn # "none" =>
        /\ got.kind \in {"Ok", "Err: Ouf of bounds"}
        /\ got.kind = "Err: Ouf of bounds" <=> got.index >= Len(ArrayOf(got.fn))
        /\ got.kind = "Ok" => got.v = ArrayOf(got.fn)[got.index + 1]

\* a getter changes nothing but its answer
GetterReadsOnly ==
    got' # got => /\ model' = model
                  /\ state' = state
                  /\ building' = building

\* C16: get_thermal_zone(i), get_thermal_surface(i) and
\* get_thermal_fenestration(i) return an out-of-bounds error exactly when i
\* is at least the length of their array and the element at position i
\* otherwise; they never panic and never modify the model.
C16_GettersCheckBounds == []GetterAnswers /\ [][GetterReadsOnly]_vars

\* C16 witness: a model of two zones and one surface was asked for the
\* surface of index 1, one past its only surface
C16_Witness ==
    /\ Len(model.zones) = 2
    /\ Len(model.surfaces) = 1
    /\ got.fn = "get_thermal_surface"
    /\ got.index = 1
    /\ got.kind = "Err: Ouf of bounds"

(***************************************************************************)
(* Properties of the state                                                 *)
(***************************************************************************)
\* new has returned and march was not called yet
JustBuilt == pc = "ready" /\ result = "none"

\* C17: after new, the model has one zone per space in the order of the
\* spaces, one thermal surface per surface and one fenestration per
\* fenestration; every zone has a slot of its own holding a dry bulb
\* temperature of 22.0 tagged with its space, so temperature() returns 22.0.
C17_NewBuildsOneZonePerSpace ==
    JustBuilt =>
        /\ Len(model.zones) = Len(building.spaces)
        /\ Len(model.surfaces) = Len(building.surfaces)
        /\ Len(model.fenestrations) = Len(building.fenestrations)
        /\ \A i \in 1..Len(model.zones) :
              LET slot == model.zones[i].temperature_state_index
              IN /\ model.zones[i].index = i
                 /\ model.zones[i].volume = building.spaces[i].volume
                 /\ slot \in DOMAIN state
                 /\ state[slot] = Element("SpaceDryBulbTemperature", i,
                                          Num(InitialTemperature * Scale))
                 /\ ZoneTemperature(model.zones[i], state) =
                        [ok |-> TRUE, v |-> Num(InitialTemperature * Scale)]
                 /\ \A j \in 1..Len(model.zones) :
                       j # i => model.zones[j].temperature_state_index # slot

\* C17 witness: two zones were built on a state that held the elements of
\* the equipment before, so their slots come after those
C17_Witness ==
    /\ JustBuilt
    /\ Len(building.elements) > 0
    /\ Len(model.zones) = 2
    /\ model.zones[1].temperature_state_index = Len(building.elements) + 1
    /\ model.zones[2].temperature_state_index = Len(building.elements) + 2
    /\ Len(model.surfaces) = 1
    /\ Len(model.fenestrations) = 1

\* a step of march leaves the layout of the state alone
MarchKeepsLayout ==
    pc \notin {"new", "new_scan"} =>
        /\ model' = model
        /\ Len(state') = Len(state)
        /\ \A p \in DOMAIN state :
              /\ state'[p].kind = state[p].kind
              /\ state'[p].idx = state[p].idx
              /\ state'[p].val # state[p].val => p \in ZoneSlots \cup NodeSlots

\* C18: march never changes the length of the state, the kind or the tag of
\* a slot, or the slot of a zone; it changes only the values of surface
\* slots and of zone temperature slots, never those of lighting, HVAC,
\* infiltration or ventilation.
C18_MarchKeepsStateLayout == [][MarchKeepsLayout]_vars

\* C18 witness: a march of a building with a heater, a luminaire,
\* infiltration and ventilation has returned Ok and has changed the
\* temperature of a zone
C18_Witness ==
    /\ pc = "ready"
    /\ result = "Ok"
    /\ Len(building.hvacs) = 1
    /\ Len(building.luminaires) = 1
    /\ HasFlow(1)
    /\ \A p \in DOMAIN building.elements : state[p] = building.elements[p]
    /\ \E p \in ZoneSlots : /\ IsFinite(state[p].val)
                            /\ state[p].val # Num(InitialTemperature * Scale)

\* C19: a zone temperature slot that holds an element of another kind, or
\* the temperature of another space, makes march return an
\* InvariantViolation error; the engine does not abort.
C19_MiswiredSlotIsAnError == result # "panic: incorrect state element"

(***************************************************************************)
(* Properties of the errors of march                                       *)
(***************************************************************************)
\* C20: a space with an infiltration or ventilation temperature and no
\* volume, an HVAC without heating/cooling value in the state, and a
\* luminaire without power value in the state each make march return an
\* error; march does not abort on them.
C20_AssemblyFailuresAreErrors == result # "panic: expect"

(***************************************************************************)
(* Properties of the weather                                               *)
(***************************************************************************)
\* the weather w with wind speed 0 and wind direction 0
WithWindZero(w) == [w EXCEPT !.wind_speed = Num(0), !.wind_direction = Num(0)]

\* a substep is about to ask the weather
AboutToAsk == pc = "substep" /\ march.k < model.dt_subdivisions

\* apart from the answer it keeps, the head of a substep leaves the same
\* with the weather w and with w at wind 0
SameHead(w) ==
    LET without == SubstepHead(w)
        with == SubstepHead(WithWindZero(w))
    IN /\ without.pc = with.pc
       /\ without.result = with.result
       /\ without.trace = with.trace
       /\ [without.march EXCEPT !.current_weather = WithWindZero(w)] = with.march

\* C21: only the dry bulb temperature is required of the weather: with a
\* dry bulb temperature and neither wind speed nor wind direction the
\* substep goes on, and it leaves what it leaves with wind speed 0 and wind
\* direction 0; nothing after the head of the substep has the wind.
C21_WindIsNotRequired ==
    /\ AboutToAsk =>
          \A w \in Windless :
              w.dry_bulb_temperature # None =>
                  /\ SubstepHead(w).pc = "surfaces"
                  /\ SameHead(w)
    /\ InSubstep => march.t_out = march.current_weather.dry_bulb_temperature

\* C21 witness: a march of two substeps returned Ok, its last weather had a
\* dry bulb temperature and no wind, and the zone has warmed or cooled
C21_Witness ==
    /\ pc = "ready"
    /\ result = "Ok"
    /\ model.dt_subdivisions = 2
    /\ march.current_weather.dry_bulb_temperature # None
    /\ march.current_weather.wind_speed = None
    /\ march.current_weather.wind_direction = None
    /\ \E p \in ZoneSlots : /\ IsFinite(state[p].val)
                            /\ state[p].val # Num(InitialTemperature * Scale)

(***************************************************************************)
(* Properties of the engine                                                *)
(***************************************************************************)
\* new has returned
Constructed == pc \notin {"new", "new_scan"}

\* a step after new keeps dt, dt_subdivisions, the zones, the surfaces and
\* the fenestrations with their boundaries
EngineKept ==
    Constructed =>
        /\ model'.dt = model.dt
        /\ model'.dt_subdivisions = model.dt_subdivisions
        /\ model'.zones = model.zones
        /\ model'.surfaces = model.surfaces
        /\ model'.fenestrations = model.fenestrations

\* every main step runs the substeps of the engine, of dt each
SameSubsteps ==
    /\ (pc = "ready" /\ result = "Ok") => march.k = model.dt_subdivisions
    /\ Constructed => /\ march.k <= model.dt_subdivisions
                      /\ RatMulInt(model.dt, n * model.dt_subdivisions) =
                            Rat(SecondsPerHour, 1)
                      /\ \A j \in 1..Len(model.surfaces) :
                            /\ model.surfaces[j].front_boundary = building.surfaces[j].front
                            /\ model.surfaces[j].back_boundary = building.surfaces[j].back
                      /\ \A j \in 1..Len(model.fenestrations) :
                            /\ model.fenestrations[j].front_boundary =
                                    building.fenestrations[j].front
                            /\ model.fenestrations[j].back_boundary =
                                    building.fenestrations[j].back

\* C22: march leaves the engine as new built it: dt, dt_subdivisions, the
\* zones, the surfaces and the fenestrations with their boundaries are the
\* same after any calls of march, failed or not, so every main step runs
\* the same number of substeps of the same dt.
C22_MarchLeavesEngineUnchanged == [][EngineKept]_vars /\ []SameSubsteps

\* C22 witness: a march of an engine of two substeps has failed in its second
\* substep, after the first had written the state
C22_Witness ==
    /\ pc = "ready"
    /\ IsErr(result)
    /\ march.k = 1
    /\ model.dt_subdivisions = 2
    /\ Len(model.surfaces) = 1
    /\ Len(model.fenestrations) = 1
    /\ \E p \in ZoneSlots : state[p].val # Num(InitialTemperature * Scale)

(***************************************************************************)
(* Properties of the boundaries                                            *)
(***************************************************************************)
\* the boundary names a zone of the engine, or no zone at all
NamesZone(boundary) ==
    boundary.kind = "Space" => boundary.z \in 1..Len(model.zones)

\* C23: after new has returned, every boundary Space(z) stored on a thermal
\* surface or fenestration names one of the zones of the engine, and march
\* does not index the zone snapshot out of range.
C23_BoundariesNameZones ==
    Constructed =>
        /\ \A j \in 1..Len(model.surfaces) :
              /\ NamesZone(model.surfaces[j].front_boundary)
              /\ NamesZone(model.surfaces[j].back_boundary)
        /\ \A j \in 1..Len(model.fenestrations) :
              /\ NamesZone(model.fenestrations[j].front_boundary)
              /\ NamesZone(model.fenestrations[j].back_boundary)
        /\ result # "panic: index out of bounds"

(***************************************************************************)
(* Properties of the capacitance                                           *)
(***************************************************************************)
Positive(x) == (x.k = "num" /\ x.v > 0) \/ (x.k = "inf" /\ x.v > 0)

\* C24: the capacitance of every zone of a constructed model, volume * air
\* density * air specific heat, is strictly positive, and so is the C the
\* analytic update of every substep uses.
C24_CapacitanceIsPositive ==
    Constructed =>
        /\ \A i \in 1..Len(model.zones) : Positive(Mcp(model.zones[i]))
        /\ pc = "zones" => \A i \in 1..Len(march.c) : Positive(march.c[i])

(***************************************************************************)
(* Properties of a zone behind one wall                                    *)
(***************************************************************************)
\* the temperature of the only zone, in 1 / Scale degrees
WarmZone(st) == st[model.zones[1].temperature_state_index].val.v

\* the smallest distance to the outdoors a substep must still reduce
WarmGap == Scale

\* the zone is between its initial temperature and the outdoors
WarmBounded ==
    Constructed =>
        /\ IsFinite(state[model.zones[1].temperature_state_index].val)
        /\ WarmZone(state) >= InitialTemperature * Scale
        /\ WarmZone(state) <= WarmOutdoors.v

\* no step cools the zone, and the write of a substep warms it while it is
\* further than WarmGap from the outdoors
Warms ==
    Constructed =>
        /\ WarmZone(state') >= WarmZone(state)
        /\ (pc = "zones" /\ march.i = 1 /\ WarmOutdoors.v - WarmZone(state) >= WarmGap)
              => WarmZone(state') > WarmZone(state)

ConsistencyRule(answer, zone, i, kind) ==
    LET consistent == i # 0 /\ state[i].kind = kind /\ state[i].idx = zone.index
    IN /\ i = 0 => answer.kind = "Ok" /\ answer.v = Num(0)
       /\ consistent => answer.kind \in {"Ok", "panic: unwrap"}
       /\ (i # 0 /\ ~consistent) => answer.kind \notin {"Ok", "panic: unwrap"}

\* C27: calc_lighting_power returns the lighting power of the zone's
\* luminaire slot when the slot is a lighting power of the zone's own space,
\* fails only when the slot is of another space or of another kind, and
\* returns 0.0 without a slot: the rule calc_heating_cooling_power applies
\* to the heating/cooling slot.
C27_LightingPowerOfOwnSpace ==
    /\ got.fn = "calc_heating_cooling_power" =>
          ConsistencyRule(got, model.zones[got.index],
                          model.zones[got.index].heating_cooling_state_index,
                          "SpaceHeatingCoolingPowerConsumption")
    /\ got.fn = "calc_lighting_power" =>
          LET zone == model.zones[got.index]
          IN /\ ConsistencyRule(got, zone, zone.luminaire_state_index,
                                "SpaceLightingPowerConsumption")
             /\ (got.kind = "Ok" /\ zone.luminaire_state_index # 0) =>
                    got.v = state[zone.luminaire_state_index].val

\* the rule holds for calc_heating_cooling_power
HeatingPowerOfOwnSpace ==
    got.fn = "calc_heating_cooling_power" =>
        ConsistencyRule(got, model.zones[got.index],
                        model.zones[got.index].heating_cooling_state_index,
                        "SpaceHeatingCoolingPowerConsumption")

\* the step is a call of consume_heat
HeatHanded == marches' # marches /\ got'.fn = "consume_heat"

\* what consume_heat does to the state
HeatConsumed ==
    HeatHanded =>
        LET zone == model.zones[got'.index]
            slot == zone.temperature_state_index
            e == state[slot]
            q == got'.v
        IN IF e.kind = "SpaceDryBulbTemperature" /\ e.idx = zone.index
           THEN /\ got'.kind = "Ok"
                /\ pc' = pc
                /\ state'[slot].kind = e.kind
                /\ state'[slot].idx = e.idx
                /\ state'[slot].val = FAdd(e.val, FDiv(q, Mcp(zone)))
                /\ Len(state') = Len(state)
                /\ \A p \in DOMAIN state : p # slot => state'[p] = state[p]
                /\ q = Num(0) => state' = state
           ELSE /\ state' = state
                /\ pc' = "panicked"

SubstepsDefined ==
    /\ new.n_subdivisions >= 1
    /\ Constructed =>
          /\ model.dt_subdivisions >= 1
          /\ model.dt.num > 0
          /\ model.dt.den > 0
          /\ RatToFloat(model.dt).k = "num"
    /\ (pc = "ready" /\ result = "Ok") =>
          /\ march.k >= 1
          /\ Positions("abc", 1) # {}

\* the scan of a construction does not lower the running divisor
DivisorKept == new'.n_subdivisions >= new.n_subdivisions

\* C29: for every building, one without constructions and one whose
\* constructions ask for a divisor of 0 included, and every number of steps
\* per hour from 1, the model new returns has dt_subdivisions >= 1 and a
\* finite dt > 0, so that march runs at least one substep; while new scans
\* the constructions the running divisor never decreases.
C29_AtLeastOneSubstep == []SubstepsDefined /\ [][DivisorKept]_vars

\* C29 witness: new has scanned a construction of divisor 0 after one of a
\* larger divisor, and a march of the model has returned
C29_Witness ==
    /\ pc = "ready"
    /\ result = "Ok"
    /\ Len(building.constructions) = 2
    /\ DiscretizeConstruction(building.constructions[1])[1] = 2
    /\ DiscretizeConstruction(building.constructions[2])[1] = 0
    /\ model.dt_subdivisions = 2

(***************************************************************************)
(* Properties of the zone writes                                           *)
(***************************************************************************)
\* the temperature zone i has in the state
ZoneNow(i) == state[model.zones[i].temperature_state_index].val

\* the writes of zone i in substep k of this call
ZoneWrites(k, i) == {p \in Positions("zone", k) : trace[p].i = i}

\* until the coefficients and the new temperatures of all zones are
\* computed no zone is written; from then on the new temperatures are
\* those of the snapshot and of the coefficients of the state the surfaces
\* left, the zones before march.i hold their new temperature and were
\* written once, the others hold the temperature of the snapshot and were
\* not written
ZonesFromOneSnapshot ==
    /\ pc \in {"surfaces", "fenestrations"} =>
          \A i \in 1..Len(model.zones) :
              /\ ZoneNow(i) = march.t_current[i]
              /\ ZoneWrites(march.k + 1, i) = {}
    /\ pc = "zones" =>
          LET abc == CalculateZonesAbc(model, building, state)
          IN /\ abc.a = march.a /\ abc.b = march.b /\ abc.c = march.c
             /\ march.future_temperatures =
                    EstimateZonesFutureTemperatures(model, march.t_current, march.a,
                                                    march.b, march.c, RatToFloat(model.dt))
             /\ \A i \in 1..Len(model.zones) :
                    IF i < march.i
                    THEN /\ ZoneNow(i) = StoredTemperature(march.future_temperatures[i])
                         /\ Cardinality(ZoneWrites(march.k + 1, i)) = 1
                    ELSE /\ ZoneNow(i) = march.t_current[i]
                         /\ ZoneWrites(march.k + 1, i) = {}

\* while the zones are written the snapshot, the coefficients and the new
\* temperatures stay as they were computed
VectorsStand ==
    (pc = "zones" /\ pc' = "zones") =>
        /\ march'.t_current = march.t_current
        /\ march'.a = march.a
        /\ march'.b = march.b
        /\ march'.c = march.c
        /\ march'.future_temperatures = march.future_temperatures

\* C30: in every substep the new temperatures of all zones are computed
\* from the snapshot of the start of the substep and from the same A, B and
\* C before any zone is written, and then every zone is written once: what
\* is written for a zone depends neither on what was written for another
\* zone in the substep nor on the order of the writes.
C30_ZonesWrittenFromOneSnapshot == []ZonesFromOneSnapshot /\ [][VectorsStand]_vars

\* C30 witness: in the second substep both zones of a building, which share
\* a wall, were written temperatures that differ from the snapshot
C30_Witness ==
    /\ pc = "zones"
    /\ march.k = 1
    /\ Len(model.zones) = 2
    /\ march.i = 3
    /\ \E j \in 1..Len(model.surfaces) :
          /\ model.surfaces[j].front_boundary.kind = "Space"
          /\ model.surfaces[j].back_boundary.kind = "Space"
          /\ model.surfaces[j].front_boundary.z # model.surfaces[j].back_boundary.z
    /\ \A i \in 1..2 : /\ IsFinite(ZoneNow(i))
                       /\ ZoneNow(i) # march.t_current[i]

=============================================================================
